---------------------------- MODULE Spec2Model ----------------------------
(***************************************************************************)
(* State machine of the Home component (src/src/pages/Home.tsx): the       *)
(* expense submission flow, the manager decision flow, selection, view     *)
(* switching and filtering.  The remote agents are the environment: every  *)
(* call settles with one of a bounded set of outcomes.                     *)
(*                                                                         *)
(* An async handler is cut at its await points; the code between two      *)
(* awaits runs to completion and is one action.  The values a handler      *)
(* closes over (expenseData, expenses.length, selectedExpense,             *)
(* managerRationale) are captured when the handler starts.                 *)
(***************************************************************************)
EXTENDS Integers, Sequences, FiniteSets, TLC

VARIABLES
    currentView,          \* 'employee' | 'manager' | 'audit'
    expenseData,          \* the form: vendor, amount, date, category
    isValidating,
    validationStage,
    validationResult,     \* JS value: null, undefined or the payload
    validationError,      \* JS value: null or a string
    expenses,             \* the in-memory list, newest first
    selectedExpense,      \* JS value: null or a snapshot of a record
    statusFilter,
    managerRationale,
    isProcessingApproval,
    approvalResult,       \* JS value: null, undefined or the payload
    auditFilters,
    submissions,          \* running instances of handleSubmitExpense
    decisions,            \* running instances of handleApprovalDecision
    crashed               \* a state updater threw while rendering

vars == <<currentView, expenseData, isValidating, validationStage,
          validationResult, validationError, expenses, selectedExpense,
          statusFilter, managerRationale, isProcessingApproval,
          approvalResult, auditFilters, submissions, decisions, crashed>>

-----------------------------------------------------------------------------
(* Bounds of the model *)

\* successful submissions are explored up to this list length
MaxExpenses == 2
\* handler instances of one kind that may run at once
MaxInFlight == 2

-----------------------------------------------------------------------------
(* JavaScript values that cross the agent boundary *)

JUndef == [t |-> "undefined"]
JNull == [t |-> "null"]
JStr(s) == [t |-> "string", v |-> s]
JObj(f) == [t |-> "object", f |-> f]

\* if (x), x || y, x && y
Truthy(v) ==
    \/ v.t = "object"
    \/ v.t = "string" /\ v.v # ""

\* x.k throws a TypeError when x is null or undefined
CanRead(v) == v.t \notin {"undefined", "null"}

\* x.k for a readable x: a missing property is undefined
Get(v, k) ==
    IF v.t = "object" /\ k \in DOMAIN v.f THEN v.f[k] ELSE JUndef

-----------------------------------------------------------------------------
(* JSON text: a sequence of tokens *)

Punct(c) == [k |-> "punct", v |-> c]
Lit(s) == [k |-> "string", v |-> s]
Word(w) == [k |-> "word", v |-> w]

\* property order of the objects the agents serialise
KeyOrder == <<"result", "final_recommendation", "validation_summary",
              "risk_level", "expense_status">>

RECURSIVE Stringify(_)
RECURSIVE StringifyMembers(_, _, _)

\* JSON.stringify of the members of object v from position i of KeyOrder on
StringifyMembers(v, i, first) ==
    IF i > Len(KeyOrder) THEN <<>>
    ELSE IF KeyOrder[i] \in DOMAIN v.f /\ v.f[KeyOrder[i]].t # "undefined"
         THEN (IF first THEN <<>> ELSE <<Punct(",")>>)
              \o <<Lit(KeyOrder[i]), Punct(":")>>
              \o Stringify(v.f[KeyOrder[i]])
              \o StringifyMembers(v, i + 1, FALSE)
         ELSE StringifyMembers(v, i + 1, first)

\* JSON.stringify, as the agent gateway applies it to a result
Stringify(v) ==
    CASE v.t = "null" -> <<Word("null")>>
      [] v.t = "string" -> <<Lit(v.v)>>
      [] v.t = "object" ->
            <<Punct("{")>> \o StringifyMembers(v, 1, TRUE) \o <<Punct("}")>>

ParseFail == [ok |-> FALSE, val |-> JUndef, rest |-> <<>>]

RECURSIVE ParseValue(_)
RECURSIVE ParsePairs(_, _)

\* the members of an object, after '{' or ',': string ':' value (',' | '}')
ParsePairs(ts, acc) ==
    IF Len(ts) < 2 \/ ts[1].k # "string" \/ ts[2] # Punct(":")
    THEN ParseFail
    ELSE LET key == ts[1].v
             r == ParseValue(SubSeq(ts, 3, Len(ts)))
         IN  IF ~r.ok \/ r.rest = <<>> THEN ParseFail
             ELSE LET acc2 == (key :> r.val) @@ acc
                  IN  IF Head(r.rest) = Punct(",")
                         THEN ParsePairs(Tail(r.rest), acc2)
                      ELSE IF Head(r.rest) = Punct("}")
                         THEN [ok |-> TRUE, val |-> JObj(acc2),
                               rest |-> Tail(r.rest)]
                      ELSE ParseFail

\* one JSON value at the head of ts
ParseValue(ts) ==
    IF ts = <<>> THEN ParseFail
    ELSE CASE Head(ts).k = "string" ->
                [ok |-> TRUE, val |-> JStr(Head(ts).v), rest |-> Tail(ts)]
           [] Head(ts) = Word("null") ->
                [ok |-> TRUE, val |-> JNull, rest |-> Tail(ts)]
           [] Head(ts) = Punct("{") ->
                IF Len(ts) >= 2 /\ ts[2] = Punct("}")
                THEN [ok |-> TRUE, val |-> JObj(<<>>),
                      rest |-> SubSeq(ts, 3, Len(ts))]
                ELSE ParsePairs(Tail(ts), <<>>)
           [] OTHER -> ParseFail

\* JSON.parse: a SyntaxError (ok = FALSE) unless the whole text is one value
JsonParse(ts) ==
    LET r == ParseValue(ts)
    IN  IF r.ok /\ r.rest = <<>> THEN [ok |-> TRUE, val |-> r.val]
        ELSE [ok |-> FALSE, val |-> JUndef]

-----------------------------------------------------------------------------
(* What callAIAgent can settle with *)

\* the response envelope: result.response.response and result.response.result
TextEnvelope(ts) == [isText |-> TRUE, text |-> ts, result |-> JUndef]
DirectEnvelope(v) == [isText |-> FALSE, text |-> <<>>, result |-> v]
NoEnvelope == DirectEnvelope(JUndef)

\* the call rejects
Throws ==
    [kind |-> "throw", success |-> FALSE, hasResponse |-> FALSE,
     response |-> NoEnvelope, error |-> ""]
\* { success: false, error }
Failure(msg) ==
    [kind |-> "return", success |-> FALSE, hasResponse |-> FALSE,
     response |-> NoEnvelope, error |-> msg]
\* { success: true } without a response
SuccessNoResponse ==
    [kind |-> "return", success |-> TRUE, hasResponse |-> FALSE,
     response |-> NoEnvelope, error |-> ""]
\* { success: true, response: env }
Success(env) ==
    [kind |-> "return", success |-> TRUE, hasResponse |-> TRUE,
     response |-> env, error |-> ""]
\* no call has settled yet
NoResult ==
    [kind |-> "none", success |-> FALSE, hasResponse |-> FALSE,
     response |-> NoEnvelope, error |-> ""]

\* a coordinator payload with the two properties the handler reads
ValidationPayload(rec, risk) ==
    JObj(("final_recommendation" :> JStr(rec))
         @@ ("validation_summary" :> JObj("risk_level" :> JStr(risk))))

ValidationPayloads ==
    { ValidationPayload("AUTO_APPROVE", "low"),
      ValidationPayload("MANAGER_REVIEW", "high"),
      ValidationPayload("reject", "high"),
      \* no final_recommendation
      JObj("validation_summary" :> JObj("risk_level" :> JStr("medium"))),
      \* no validation_summary
      JObj("final_recommendation" :> JStr("MANAGER_REVIEW")) }

\* an approval payload with the property the handler reads
ApprovalPayload(status) == JObj("expense_status" :> JStr(status))

ApprovalPayloads ==
    { ApprovalPayload("approved"),
      ApprovalPayload("rejected"),
      ApprovalPayload("escalated"),
      \* no expense_status
      JObj(<<>>) }

\* texts that are not an object with a result
BrokenTexts ==
    { Stringify(JObj(<<>>)),
      Stringify(JNull),
      <<Punct("{"), Lit("result")>> }

\* the envelopes that carry result R in either shape, and those that carry none
EnvelopesOf(results) ==
    { TextEnvelope(Stringify(JObj("result" :> R))) : R \in results }
    \cup { DirectEnvelope(R) : R \in results }
    \cup { TextEnvelope(ts) : ts \in BrokenTexts }
    \cup { NoEnvelope }

OutcomesOf(results) ==
    { Throws, Failure(""), Failure("Agent unavailable"), SuccessNoResponse }
    \cup { Success(env) : env \in EnvelopesOf(results) }

CoordinatorOutcomes == OutcomesOf(ValidationPayloads \cup {JNull})
ApprovalOutcomes == OutcomesOf(ApprovalPayloads \cup {JNull})

-----------------------------------------------------------------------------
(* The form *)

Vendors == {"", "Starbucks Coffee"}
Amounts == {"", "12.50"}
Dates == {"", "2026-01-10"}
Categories == {"Business Meal", "Travel"}

FieldValues(field) ==
    CASE field = "vendor" -> Vendors
      [] field = "amount" -> Amounts
      [] field = "date" -> Dates
      [] field = "category" -> Categories

Fields == {"vendor", "amount", "date", "category"}

NaN == -1

\* parseFloat of the amount text, in cents
ParseFloat(s) ==
    CASE s = "12.50" -> 1250
      [] OTHER -> NaN

RECURSIVE Digits(_)
\* String(n) for n >= 0, as decimal digits
Digits(n) == IF n < 10 THEN <<n>> ELSE Digits(n \div 10) \o <<n % 10>>

RECURSIVE PadStart(_, _)
\* padStart(width, '0')
PadStart(ds, width) ==
    IF Len(ds) >= width THEN ds ELSE PadStart(<<0>> \o ds, width)

IdWidth == 3

\* the identifier without the sequence number
ExpenseIdUnnumbered(n) == [prefix |-> "EXP-2026-", digits |-> <<0, 0, 0>>]

\* `EXP-2026-${String(n).padStart(3, '0')}`
ExpenseId(n) == [prefix |-> "EXP-2026-", digits |-> PadStart(Digits(n), IdWidth)]

-----------------------------------------------------------------------------
(* Construction *)

Views == {"employee", "manager", "audit"}
StatusFilters == {"all", "pending", "reviewing", "approved", "rejected"}

Init ==
    /\ currentView = "employee"
    /\ expenseData = [vendor |-> "", amount |-> "", date |-> "",
                      category |-> "Business Meal"]
    /\ isValidating = FALSE
    /\ validationStage = 0
    /\ validationResult = JNull
    /\ validationError = JNull
    /\ expenses = <<>>
    /\ selectedExpense = JNull
    /\ statusFilter = "all"
    /\ managerRationale = ""
    /\ isProcessingApproval = FALSE
    /\ approvalResult = JNull
    /\ auditFilters = [dateFrom |-> "", dateTo |-> "", employee |-> "",
                       status |-> "all"]
    /\ submissions = <<>>
    /\ decisions = <<>>
    /\ crashed = FALSE

\* a settled call resumes its handler before any other event is handled
Settled(insts) == \E k \in DOMAIN insts : insts[k].pc = "settled"

\* the component is mounted and no continuation is waiting to run
Ready == ~crashed /\ ~Settled(submissions) /\ ~Settled(decisions)

\* the sequence without its k-th element
Without(seq, k) == SubSeq(seq, 1, k - 1) \o SubSeq(seq, k + 1, Len(seq))

-----------------------------------------------------------------------------
(* Employee dashboard: the form and handleSubmitExpense *)

\* setExpenseData(prev => ({ ...prev, [field]: value }))
HandleExpenseDataChange(field, value) ==
    /\ Ready
    /\ currentView = "employee"
    /\ value # expenseData[field]
    /\ expenseData' = [expenseData EXCEPT ![field] = value]
    /\ UNCHANGED <<currentView, isValidating, validationStage,
                   validationResult, validationError, expenses,
                   selectedExpense, statusFilter, managerRationale,
                   isProcessingApproval, approvalResult, auditFilters,
                   submissions, decisions, crashed>>

\* the submit button without the date check
SubmitDisabledNoDate ==
    \/ isValidating
    \/ expenseData.vendor = ""
    \/ expenseData.amount = ""

\* the submit button without the isValidating check
SubmitDisabledWhileIdleOnly ==
    \/ expenseData.vendor = ""
    \/ expenseData.amount = ""
    \/ expenseData.date = ""

\* the disabled attribute of the submit button
SubmitDisabled ==
    \/ isValidating
    \/ expenseData.vendor = ""
    \/ expenseData.amount = ""
    \/ expenseData.date = ""

\* stages.length
NumStages == 5
\* setValidationStage(5) in finally
DoneStage == 5

\* click on Submit Expense: the handler up to its first await
HandleSubmitExpense ==
    /\ Ready
    /\ currentView = "employee"
    /\ ~SubmitDisabled
    /\ Len(submissions) < MaxInFlight
    /\ isValidating' = TRUE
    /\ validationError' = JNull
    /\ validationResult' = JNull
    /\ validationStage' = 0
    /\ submissions' = Append(submissions,
           [pc |-> "pause", i |-> 0, data |-> expenseData,
            len |-> Len(expenses), result |-> NoResult])
    /\ UNCHANGED <<currentView, expenseData, expenses, selectedExpense,
                   statusFilter, managerRationale, isProcessingApproval,
                   approvalResult, auditFilters, decisions, crashed>>

\* the staged pauses with the stage counter running one stage ahead
PauseElapsedStageAhead(k) ==
    /\ Ready
    /\ k \in DOMAIN submissions
    /\ submissions[k].pc = "pause"
    /\ IF submissions[k].i + 1 < NumStages
       THEN /\ validationStage' = submissions[k].i + 2
            /\ submissions' = [submissions EXCEPT ![k].i = @ + 1]
       ELSE /\ validationStage' = validationStage
            /\ submissions' = [submissions EXCEPT ![k].pc = "call"]
    /\ UNCHANGED <<currentView, expenseData, isValidating, validationResult,
                   validationError, expenses, selectedExpense, statusFilter,
                   managerRationale, isProcessingApproval, approvalResult,
                   auditFilters, decisions, crashed>>

\* a staged pause elapses: the next stage starts, or the coordinator is called
PauseElapsed(k) ==
    /\ Ready
    /\ k \in DOMAIN submissions
    /\ submissions[k].pc = "pause"
    /\ IF submissions[k].i + 1 < NumStages
       THEN /\ validationStage' = submissions[k].i + 1
            /\ submissions' = [submissions EXCEPT ![k].i = @ + 1]
       ELSE /\ validationStage' = validationStage
            /\ submissions' = [submissions EXCEPT ![k].pc = "call"]
    /\ UNCHANGED <<currentView, expenseData, isValidating, validationResult,
                   validationError, expenses, selectedExpense, statusFilter,
                   managerRationale, isProcessingApproval, approvalResult,
                   auditFilters, decisions, crashed>>

\* the coordinator call settles; a result that adds a record needs room
CoordinatorSettles(k, r) ==
    /\ Ready
    /\ k \in DOMAIN submissions
    /\ submissions[k].pc = "call"
    /\ (r.success /\ r.hasResponse) => Len(expenses) < MaxExpenses
    /\ submissions' = [submissions EXCEPT ![k].pc = "settled",
                                          ![k].result = r]
    /\ UNCHANGED <<currentView, expenseData, isValidating, validationStage,
                   validationResult, validationError, expenses,
                   selectedExpense, statusFilter, managerRationale,
                   isProcessingApproval, approvalResult, auditFilters,
                   decisions, crashed>>

\* the string shape taken as the payload itself, not its result property
ExtractResultNoUnwrap(env) ==
    IF env.isText
    THEN LET parsedResponse == JsonParse(env.text)
         IN  IF parsedResponse.ok
             THEN [threw |-> FALSE, data |-> parsedResponse.val]
             ELSE [threw |-> TRUE, data |-> JUndef]
    ELSE IF Truthy(env.result)
         THEN [threw |-> FALSE, data |-> env.result]
         ELSE [threw |-> TRUE, data |-> JUndef]

\* an envelope of neither shape taken as a payload instead of raising
ExtractResultAcceptsMissing(env) ==
    IF env.isText
    THEN LET parsedResponse == JsonParse(env.text)
         IN  IF parsedResponse.ok /\ CanRead(parsedResponse.val)
             THEN [threw |-> FALSE, data |-> Get(parsedResponse.val, "result")]
             ELSE [threw |-> TRUE, data |-> JUndef]
    ELSE [threw |-> FALSE, data |-> env.result]

\* the payload of a recognised envelope, or threw
ExtractResult(env) ==
    IF env.isText
    THEN LET parsedResponse == JsonParse(env.text)
         IN  IF parsedResponse.ok /\ CanRead(parsedResponse.val)
             THEN [threw |-> FALSE, data |-> Get(parsedResponse.val, "result")]
             ELSE [threw |-> TRUE, data |-> JUndef]
    ELSE IF Truthy(env.result)
         THEN [threw |-> FALSE, data |-> env.result]
         ELSE [threw |-> TRUE, data |-> JUndef]

\* the status of a new record with 'pending' as the fallback
RecordStatusPendingFallback(validationData) ==
    IF Get(validationData, "final_recommendation") = JStr("AUTO_APPROVE")
    THEN JStr("approved")
    ELSE IF Get(validationData, "final_recommendation") = JStr("MANAGER_REVIEW")
         THEN JStr("reviewing")
         ELSE JStr("pending")

\* the status of a new record
RecordStatus(validationData) ==
    IF Get(validationData, "final_recommendation") = JStr("AUTO_APPROVE")
    THEN JStr("approved")
    ELSE IF Get(validationData, "final_recommendation") = JStr("MANAGER_REVIEW")
         THEN JStr("reviewing")
         ELSE JStr("rejected")

\* building newExpense reads validationData.final_recommendation and
\* validationData.validation_summary.risk_level
CanBuildExpense(validationData) ==
    /\ CanRead(validationData)
    /\ CanRead(Get(validationData, "validation_summary"))

\* `Validate expense: Vendor: ${expenseData.vendor}, Amount: $${...}, ...`
CoordinatorMessage(data) ==
    <<"Validate expense: Vendor: ", data.vendor, ", Amount: $", data.amount,
      ", Date: ", data.date, ", Category: ", data.category,
      ", Employee: Current User">>

\* the new record built from the form as it is when the call has settled
NewExpenseFromCurrentForm(validationData, data, len) ==
    [id |-> ExpenseId(len + 1),
     employee |-> "Current User",
     vendor |-> expenseData.vendor,
     amount |-> ParseFloat(expenseData.amount),
     date |-> expenseData.date,
     category |-> expenseData.category,
     status |-> RecordStatus(validationData),
     riskScore |-> Get(Get(validationData, "validation_summary"), "risk_level"),
     validationResult |-> validationData]

\* the new record without the embedded validation result
NewExpenseWithoutPayload(validationData, data, len) ==
    [id |-> ExpenseId(len + 1),
     employee |-> "Current User",
     vendor |-> data.vendor,
     amount |-> ParseFloat(data.amount),
     date |-> data.date,
     category |-> data.category,
     status |-> RecordStatus(validationData),
     riskScore |-> Get(Get(validationData, "validation_summary"), "risk_level"),
     validationResult |-> JUndef]

NewExpense(validationData, data, len) ==
    [id |-> ExpenseId(len + 1),
     employee |-> "Current User",
     vendor |-> data.vendor,
     amount |-> ParseFloat(data.amount),
     date |-> data.date,
     category |-> data.category,
     status |-> RecordStatus(validationData),
     riskScore |-> Get(Get(validationData, "validation_summary"), "risk_level"),
     validationResult |-> validationData]

\* the list replaced by the new record alone
AddExpenseAlone(newExpense, prev) == <<newExpense>>

\* the new record put at the end of the list
AddExpenseAppended(newExpense, prev) == prev \o <<newExpense>>

\* the new record put in front of the list as the submissions left it, every
\* status a decision wrote since then lost
AddExpenseToStaleList(newExpense, prev) ==
    <<newExpense>>
    \o [n \in DOMAIN prev |->
           [prev[n] EXCEPT !.status = RecordStatus(prev[n].validationResult)]]

\* setExpenses(prev => [newExpense, ...prev])
AddExpense(newExpense, prev) == <<newExpense>> \o prev

\* the fallback shown whatever error string the call returned
FailureMessageFallbackOnly(r) == JStr("Validation failed")

\* result.error || 'Validation failed'
FailureMessage(r) ==
    IF r.error # "" THEN JStr(r.error) ELSE JStr("Validation failed")

NetworkError == JStr("Network error occurred")

\* what the continuation of handleSubmitExpense leaves in validationResult,
\* validationError and expenses when the call settled with r
SubmitOutcome(r, data, len) ==
    IF r.kind = "throw"
    THEN [validationResult |-> validationResult,
          validationError |-> NetworkError,
          expenses |-> expenses]
    ELSE IF r.success /\ r.hasResponse
    THEN LET x == ExtractResult(r.response)
         IN  IF x.threw
             THEN [validationResult |-> validationResult,
                   validationError |-> NetworkError,
                   expenses |-> expenses]
             ELSE IF ~CanBuildExpense(x.data)
             THEN [validationResult |-> x.data,
                   validationError |-> NetworkError,
                   expenses |-> expenses]
             ELSE [validationResult |-> x.data,
                   validationError |-> validationError,
                   expenses |-> AddExpense(NewExpense(x.data, data, len),
                                           expenses)]
    ELSE [validationResult |-> validationResult,
          validationError |-> FailureMessage(r),
          expenses |-> expenses]

\* the continuation without the finally block when the call threw
ResumeSubmitNoFinallyOnThrow(k) ==
    /\ ~crashed
    /\ k \in DOMAIN submissions
    /\ submissions[k].pc = "settled"
    /\ LET out == SubmitOutcome(submissions[k].result, submissions[k].data,
                                submissions[k].len)
       IN  /\ validationResult' = out.validationResult
           /\ validationError' = out.validationError
           /\ expenses' = out.expenses
    /\ IF submissions[k].result.kind = "throw"
       THEN UNCHANGED <<isValidating, validationStage>>
       ELSE isValidating' = FALSE /\ validationStage' = DoneStage
    /\ submissions' = Without(submissions, k)
    /\ UNCHANGED <<currentView, expenseData, selectedExpense, statusFilter,
                   managerRationale, isProcessingApproval, approvalResult,
                   auditFilters, decisions, crashed>>

\* the continuation calling the coordinator again when the call threw
ResumeSubmitRetriesOnThrow(k) ==
    /\ ~crashed
    /\ k \in DOMAIN submissions
    /\ submissions[k].pc = "settled"
    /\ IF submissions[k].result.kind = "throw"
       THEN /\ submissions' = [submissions EXCEPT ![k].pc = "call",
                                                  ![k].result = NoResult]
            /\ UNCHANGED <<validationResult, validationError, expenses,
                           isValidating, validationStage>>
       ELSE /\ LET out == SubmitOutcome(submissions[k].result,
                                        submissions[k].data,
                                        submissions[k].len)
               IN  /\ validationResult' = out.validationResult
                   /\ validationError' = out.validationError
                   /\ expenses' = out.expenses
            /\ isValidating' = FALSE
            /\ validationStage' = DoneStage
            /\ submissions' = Without(submissions, k)
    /\ UNCHANGED <<currentView, expenseData, selectedExpense, statusFilter,
                   managerRationale, isProcessingApproval, approvalResult,
                   auditFilters, decisions, crashed>>

\* the handler resumes after the call: the rest of try, catch and finally
ResumeSubmit(k) ==
    /\ ~crashed
    /\ k \in DOMAIN submissions
    /\ submissions[k].pc = "settled"
    /\ LET out == SubmitOutcome(submissions[k].result, submissions[k].data,
                                submissions[k].len)
       IN  /\ validationResult' = out.validationResult
           /\ validationError' = out.validationError
           /\ expenses' = out.expenses
    /\ isValidating' = FALSE
    /\ validationStage' = DoneStage
    /\ submissions' = Without(submissions, k)
    /\ UNCHANGED <<currentView, expenseData, selectedExpense, statusFilter,
                   managerRationale, isProcessingApproval, approvalResult,
                   auditFilters, decisions, crashed>>

-----------------------------------------------------------------------------
(* Selection, filtering and navigation *)

\* the whole list whatever the status filter
FilteredExpensesUnfiltered == expenses

\* expenses.filter(...) by statusFilter
FilteredExpenses ==
    SelectSeq(expenses,
              LAMBDA exp : statusFilter = "all" \/ exp.status = JStr(statusFilter))

\* expenses.filter(e => e.status === 'reviewing' || e.status === 'pending')
PendingExpenses ==
    SelectSeq(expenses,
              LAMBDA e : e.status = JStr("reviewing") \/ e.status = JStr("pending"))

\* click on a row of the Recent Expenses table
SelectFromList(k) ==
    /\ Ready
    /\ currentView = "employee"
    /\ k \in DOMAIN FilteredExpenses
    /\ selectedExpense' = FilteredExpenses[k]
    /\ UNCHANGED <<currentView, expenseData, isValidating, validationStage,
                   validationResult, validationError, expenses, statusFilter,
                   managerRationale, isProcessingApproval, approvalResult,
                   auditFilters, submissions, decisions, crashed>>

\* click on a card of the Review Queue
SelectFromQueue(k) ==
    /\ Ready
    /\ currentView = "manager"
    /\ k \in DOMAIN PendingExpenses
    /\ selectedExpense' = PendingExpenses[k]
    /\ UNCHANGED <<currentView, expenseData, isValidating, validationStage,
                   validationResult, validationError, expenses, statusFilter,
                   managerRationale, isProcessingApproval, approvalResult,
                   auditFilters, submissions, decisions, crashed>>

SetStatusFilter(value) ==
    /\ Ready
    /\ currentView = "employee"
    /\ value # statusFilter
    /\ statusFilter' = value
    /\ UNCHANGED <<currentView, expenseData, isValidating, validationStage,
                   validationResult, validationError, expenses,
                   selectedExpense, managerRationale, isProcessingApproval,
                   approvalResult, auditFilters, submissions, decisions,
                   crashed>>

\* a navigation button
SetCurrentView(view) ==
    /\ Ready
    /\ view # currentView
    /\ currentView' = view
    /\ UNCHANGED <<expenseData, isValidating, validationStage,
                   validationResult, validationError, expenses,
                   selectedExpense, statusFilter, managerRationale,
                   isProcessingApproval, approvalResult, auditFilters,
                   submissions, decisions, crashed>>

-----------------------------------------------------------------------------
(* Audit log *)

AuditFilterFields == {"dateFrom", "dateTo", "employee", "status"}

\* what the user enters in the four filter controls
AuditFilterValues(field) ==
    CASE field = "dateFrom" -> {"", "2026-02-01"}
      [] field = "dateTo" -> {"", "2026-01-31"}
      [] field = "employee" -> {"", "Alice"}
      [] field = "status" -> {"all", "approved", "rejected", "pending"}

\* setAuditFilters(prev => ({ ...prev, [field]: value }))
SetAuditFilters(field, value) ==
    /\ Ready
    /\ currentView = "audit"
    /\ value # auditFilters[field]
    /\ auditFilters' = [auditFilters EXCEPT ![field] = value]
    /\ UNCHANGED <<currentView, expenseData, isValidating, validationStage,
                   validationResult, validationError, expenses,
                   selectedExpense, statusFilter, managerRationale,
                   isProcessingApproval, approvalResult, submissions,
                   decisions, crashed>>

\* the rows of the audit table: expenses.map(expense => <TableRow ...>)
AuditRows == expenses

-----------------------------------------------------------------------------
(* Manager review: the rationale and handleApprovalDecision *)

Rationales == {"", "valid per policy"}
Decisions == {"approve", "reject"}

\* the Decision Rationale textarea, rendered when a record is selected
SetManagerRationale(text) ==
    /\ Ready
    /\ currentView = "manager"
    /\ selectedExpense # JNull
    /\ text # managerRationale
    /\ managerRationale' = text
    /\ UNCHANGED <<currentView, expenseData, isValidating, validationStage,
                   validationResult, validationError, expenses,
                   selectedExpense, statusFilter, isProcessingApproval,
                   approvalResult, auditFilters, submissions, decisions,
                   crashed>>

\* the Approve and Reject buttons without the isProcessingApproval check
DecisionDisabledNoRationaleOnly == managerRationale = ""

\* the Approve and Reject buttons without the rationale check
DecisionDisabledWhileProcessingOnly == isProcessingApproval

\* the disabled attribute of the Approve and Reject buttons
DecisionDisabled == isProcessingApproval \/ managerRationale = ""

\* click on Approve or Reject: the handler up to its await
HandleApprovalDecision(decision) ==
    /\ Ready
    /\ currentView = "manager"
    /\ selectedExpense # JNull
    /\ ~DecisionDisabled
    /\ Len(decisions) < MaxInFlight
    /\ isProcessingApproval' = TRUE
    /\ approvalResult' = JNull
    /\ decisions' = Append(decisions,
           [pc |-> "call", decision |-> decision,
            selected |-> selectedExpense, rationale |-> managerRationale,
            result |-> NoResult])
    /\ UNCHANGED <<currentView, expenseData, isValidating, validationStage,
                   validationResult, validationError, expenses,
                   selectedExpense, statusFilter, managerRationale,
                   auditFilters, submissions, crashed>>

\* the approval call settles
ApprovalSettles(k, r) ==
    /\ Ready
    /\ k \in DOMAIN decisions
    /\ decisions[k].pc = "call"
    /\ decisions' = [decisions EXCEPT ![k].pc = "settled", ![k].result = r]
    /\ UNCHANGED <<currentView, expenseData, isValidating, validationStage,
                   validationResult, validationError, expenses,
                   selectedExpense, statusFilter, managerRationale,
                   isProcessingApproval, approvalResult, auditFilters,
                   submissions, crashed>>

\* the payload of a recognised approval envelope, or threw
ExtractApproval(env) ==
    IF env.isText
    THEN LET parsedResponse == JsonParse(env.text)
         IN  IF parsedResponse.ok /\ CanRead(parsedResponse.val)
             THEN [threw |-> FALSE, data |-> Get(parsedResponse.val, "result")]
             ELSE [threw |-> TRUE, data |-> JUndef]
    ELSE IF Truthy(env.result)
         THEN [threw |-> FALSE, data |-> env.result]
         ELSE [threw |-> TRUE, data |-> JUndef]

\* the status written to every record of the list
ApplyDecisionToAll(prev, selected, approvalData) ==
    [n \in DOMAIN prev |->
        [prev[n] EXCEPT !.status = Get(approvalData, "expense_status")]]

\* the matching record marked 'approved' whatever the agent returned
ApplyDecisionApproved(prev, selected, approvalData) ==
    [n \in DOMAIN prev |->
        IF prev[n].id = selected.id
        THEN [prev[n] EXCEPT !.status = JStr("approved")]
        ELSE prev[n]]

\* the status written to the record that is selected when the call returns
ApplyDecisionToCurrentSelection(prev, selected, approvalData) ==
    [n \in DOMAIN prev |->
        IF prev[n].id = selectedExpense.id
        THEN [prev[n] EXCEPT !.status = Get(approvalData, "expense_status")]
        ELSE prev[n]]

\* prev.map(exp => exp.id === selectedExpense.id
\*                   ? { ...exp, status: approvalData.expense_status } : exp)
ApplyDecision(prev, selected, approvalData) ==
    [n \in DOMAIN prev |->
        IF prev[n].id = selected.id
        THEN [prev[n] EXCEPT !.status = Get(approvalData, "expense_status")]
        ELSE prev[n]]

\* the updater reads approvalData.expense_status for the matching record
UpdaterThrows(prev, selected, approvalData) ==
    /\ ~CanRead(approvalData)
    /\ \E n \in DOMAIN prev : prev[n].id = selected.id

\* the continuation of handleApprovalDecision with the rationale cleared in
\* finally instead of in the success branch
DecisionOutcomeClearsInFinally(r, selected) ==
    LET failed == [approvalResult |-> approvalResult,
                   expenses |-> expenses,
                   managerRationale |-> "",
                   isProcessingApproval |-> FALSE,
                   crashed |-> FALSE]
    IN  IF r.kind = "throw"
        THEN failed
        ELSE IF r.success /\ r.hasResponse
        THEN LET x == ExtractApproval(r.response)
             IN  IF x.threw
                 THEN failed
                 ELSE IF UpdaterThrows(expenses, selected, x.data)
                 THEN [failed EXCEPT !.managerRationale = managerRationale,
                                     !.isProcessingApproval =
                                         isProcessingApproval,
                                     !.crashed = TRUE]
                 ELSE [approvalResult |-> x.data,
                       expenses |-> ApplyDecision(expenses, selected, x.data),
                       managerRationale |-> "",
                       isProcessingApproval |-> FALSE,
                       crashed |-> FALSE]
        ELSE failed

\* the continuation of handleApprovalDecision with a failed attempt recorded
\* as a rejection of the selected record
DecisionOutcomeRejectsOnFailure(r, selected) ==
    LET failed == [approvalResult |-> approvalResult,
                   expenses |-> ApplyDecision(expenses, selected,
                                              ApprovalPayload("rejected")),
                   managerRationale |-> managerRationale,
                   isProcessingApproval |-> FALSE,
                   crashed |-> FALSE]
    IN  IF r.kind = "throw"
        THEN failed
        ELSE IF r.success /\ r.hasResponse
        THEN LET x == ExtractApproval(r.response)
             IN  IF x.threw
                 THEN failed
                 ELSE IF UpdaterThrows(expenses, selected, x.data)
                 THEN [failed EXCEPT !.expenses = expenses,
                                     !.isProcessingApproval =
                                         isProcessingApproval,
                                     !.crashed = TRUE]
                 ELSE [approvalResult |-> x.data,
                       expenses |-> ApplyDecision(expenses, selected, x.data),
                       managerRationale |-> "",
                       isProcessingApproval |-> FALSE,
                       crashed |-> FALSE]
        ELSE failed

\* what the continuation of handleApprovalDecision leaves in approvalResult,
\* expenses, managerRationale and isProcessingApproval when the call settled
\* with r.  An updater that throws is re-run while rendering: the component
\* is torn down and none of the queued updates is committed.
DecisionOutcome(r, selected) ==
    LET unchanged == [approvalResult |-> approvalResult,
                      expenses |-> expenses,
                      managerRationale |-> managerRationale,
                      isProcessingApproval |-> FALSE,
                      crashed |-> FALSE]
    IN  IF r.kind = "throw"
        THEN unchanged
        ELSE IF r.success /\ r.hasResponse
        THEN LET x == ExtractApproval(r.response)
             IN  IF x.threw
                 THEN unchanged
                 ELSE IF UpdaterThrows(expenses, selected, x.data)
                 THEN [unchanged EXCEPT !.isProcessingApproval =
                                            isProcessingApproval,
                                        !.crashed = TRUE]
                 ELSE [approvalResult |-> x.data,
                       expenses |-> ApplyDecision(expenses, selected, x.data),
                       managerRationale |-> "",
                       isProcessingApproval |-> FALSE,
                       crashed |-> FALSE]
        ELSE unchanged

\* the handler resumes after the call: the rest of try, catch and finally
ResumeDecision(k) ==
    /\ ~crashed
    /\ k \in DOMAIN decisions
    /\ decisions[k].pc = "settled"
    /\ decisions' = Without(decisions, k)
    /\ LET out == DecisionOutcome(decisions[k].result, decisions[k].selected)
       IN  /\ approvalResult' = out.approvalResult
           /\ expenses' = out.expenses
           /\ managerRationale' = out.managerRationale
           /\ isProcessingApproval' = out.isProcessingApproval
           /\ crashed' = out.crashed
    /\ UNCHANGED <<currentView, expenseData, isValidating, validationStage,
                   validationResult, validationError, selectedExpense,
                   statusFilter, auditFilters, submissions>>

-----------------------------------------------------------------------------
(* The application.  The three specifications run the same handlers and    *)
(* differ in the inputs they draw: Spec interleaves every operation of the *)
(* component over a few representative agent outcomes; SpecSubmit and      *)
(* SpecReview explore one flow over every outcome of its agent.            *)

\* the form is filled in, field by field
FilledValue(field) == FieldValues(field) \ {"", "Business Meal"}

AppStatusFilters == {"all", "approved"}

AppCoordinatorOutcomes ==
    { Throws,
      Success(TextEnvelope(Stringify(
          JObj("result" :> ValidationPayload("AUTO_APPROVE", "low"))))),
      Success(DirectEnvelope(ValidationPayload("MANAGER_REVIEW", "high"))) }

AppApprovalOutcomes ==
    { Failure(""),
      Success(TextEnvelope(Stringify(
          JObj("result" :> ApprovalPayload("rejected"))))) }

Next ==
    \/ \E field \in Fields \ {"category"} : \E value \in FilledValue(field) :
          HandleExpenseDataChange(field, value)
    \/ HandleSubmitExpense
    \/ \E k \in DOMAIN submissions : PauseElapsed(k)
    \/ \E k \in DOMAIN submissions : \E r \in AppCoordinatorOutcomes :
          CoordinatorSettles(k, r)
    \/ \E k \in DOMAIN submissions : ResumeSubmit(k)
    \/ \E k \in DOMAIN expenses : SelectFromList(k)
    \/ \E k \in DOMAIN expenses : SelectFromQueue(k)
    \/ \E value \in AppStatusFilters : SetStatusFilter(value)
    \/ \E view \in Views : SetCurrentView(view)
    \/ \E text \in Rationales : SetManagerRationale(text)
    \/ \E decision \in Decisions : HandleApprovalDecision(decision)
    \/ \E k \in DOMAIN decisions : \E r \in AppApprovalOutcomes :
          ApprovalSettles(k, r)
    \/ \E k \in DOMAIN decisions : ResumeDecision(k)

Spec == Init /\ [][Next]_vars

\* the submission flow over every form edit and every coordinator outcome
SubmitNext ==
    \/ \E field \in Fields : \E value \in FieldValues(field) :
          HandleExpenseDataChange(field, value)
    \/ HandleSubmitExpense
    \/ \E k \in DOMAIN submissions : PauseElapsed(k)
    \/ \E k \in DOMAIN submissions : \E r \in CoordinatorOutcomes :
          CoordinatorSettles(k, r)
    \/ \E k \in DOMAIN submissions : ResumeSubmit(k)

SpecSubmit == Init /\ [][SubmitNext]_vars

\* the form as the submissions of ReviewInit left it
FilledForm ==
    [vendor |-> "Starbucks Coffee", amount |-> "12.50", date |-> "2026-01-10",
     category |-> "Business Meal"]

ReviewPayloads ==
    { ValidationPayload("AUTO_APPROVE", "low"),
      ValidationPayload("MANAGER_REVIEW", "high") }

\* the list after the payloads ps[n], ..., ps[1] were submitted in that order
SubmittedList(ps) ==
    [k \in DOMAIN ps |-> NewExpense(ps[k], FilledForm, Len(ps) - k)]

\* the states the component is in after 1..MaxExpenses successful submissions
\* and a click on Manager Review
ReviewInit ==
    /\ currentView = "manager"
    /\ expenseData = FilledForm
    /\ isValidating = FALSE
    /\ validationStage = DoneStage
    /\ validationError = JNull
    /\ \E n \in 1..MaxExpenses : \E ps \in [1..n -> ReviewPayloads] :
          /\ expenses = SubmittedList(ps)
          /\ validationResult = ps[1]
    /\ selectedExpense = JNull
    /\ statusFilter = "all"
    /\ managerRationale = ""
    /\ isProcessingApproval = FALSE
    /\ approvalResult = JNull
    /\ auditFilters = [dateFrom |-> "", dateTo |-> "", employee |-> "",
                       status |-> "all"]
    /\ submissions = <<>>
    /\ decisions = <<>>
    /\ crashed = FALSE

\* the decision flow over every approval outcome
ReviewNext ==
    \/ \E k \in DOMAIN expenses : SelectFromQueue(k)
    \/ \E text \in Rationales : SetManagerRationale(text)
    \/ \E decision \in Decisions : HandleApprovalDecision(decision)
    \/ \E k \in DOMAIN decisions : \E r \in ApprovalOutcomes :
          ApprovalSettles(k, r)
    \/ \E k \in DOMAIN decisions : ResumeDecision(k)

SpecReview == ReviewInit /\ [][ReviewNext]_vars

\* the statuses a record has after a submission for manager review and any
\* number of decisions on it
BrowseStatuses ==
    { RecordStatus(ValidationPayload("MANAGER_REVIEW", "high")) }
    \cup { Get(R, "expense_status") : R \in ApprovalPayloads }

\* the list after Len(st) submissions for manager review and decisions that
\* left the k-th record with status st[k]
DecidedList(st) ==
    [k \in DOMAIN st |->
        [NewExpense(ValidationPayload("MANAGER_REVIEW", "high"), FilledForm,
                    Len(st) - k)
            EXCEPT !.status = st[k]]]

\* the states the component is in after up to MaxExpenses successful
\* submissions and the decisions made on them, back on the employee view
BrowseInit ==
    /\ currentView = "employee"
    /\ expenseData = FilledForm
    /\ isValidating = FALSE
    /\ \E n \in 0..MaxExpenses : \E st \in [1..n -> BrowseStatuses] :
          /\ expenses = DecidedList(st)
          /\ validationStage = IF n = 0 THEN 0 ELSE DoneStage
          /\ validationResult =
                 IF n = 0 THEN JNull
                 ELSE ValidationPayload("MANAGER_REVIEW", "high")
    /\ validationError = JNull
    /\ selectedExpense = JNull
    /\ statusFilter = "all"
    /\ managerRationale = ""
    /\ isProcessingApproval = FALSE
    /\ approvalResult = JNull
    /\ auditFilters = [dateFrom |-> "", dateTo |-> "", employee |-> "",
                       status |-> "all"]
    /\ submissions = <<>>
    /\ decisions = <<>>
    /\ crashed = FALSE

\* browsing: the status filter, the row selection, the views and the audit
\* filter controls
BrowseNext ==
    \/ \E value \in StatusFilters : SetStatusFilter(value)
    \/ \E k \in DOMAIN expenses : SelectFromList(k)
    \/ \E view \in Views : SetCurrentView(view)
    \/ \E field \in AuditFilterFields : \E value \in AuditFilterValues(field) :
          SetAuditFilters(field, value)

SpecBrowse == BrowseInit /\ [][BrowseNext]_vars

\* the decision flow when every approval call eventually settles and every
\* settled call resumes its handler
SpecReviewFair ==
    /\ ReviewInit
    /\ [][ReviewNext]_vars
    /\ WF_vars(\E k \in DOMAIN decisions : \E r \in ApprovalOutcomes :
                  ApprovalSettles(k, r))
    /\ WF_vars(\E k \in DOMAIN decisions : ResumeDecision(k))

-----------------------------------------------------------------------------
(* Vocabulary of the properties *)

\* the settled result r carries the result R, as an object or as JSON text
CarriesDirect(r, R) == r = Success(DirectEnvelope(R))
CarriesText(r, R) == r = Success(TextEnvelope(Stringify(JObj("result" :> R))))
Carries(r, R) == CarriesDirect(r, R) \/ CarriesText(r, R)

\* the coordinator payloads that have a validation_summary
CompletePayloads ==
    { R \in ValidationPayloads : "validation_summary" \in DOMAIN R.f }

\* the step in which the k-th running submission resumes and finishes
SubmissionResumes(k) ==
    /\ k \in DOMAIN submissions
    /\ submissions[k].pc = "settled"
    /\ submissions' = Without(submissions, k)

\* the step in which the k-th running decision resumes and finishes
DecisionResumes(k) ==
    /\ k \in DOMAIN decisions
    /\ decisions[k].pc = "settled"
    /\ decisions' = Without(decisions, k)

\* the status the specification assigns to a recommendation
StatusFor(R) ==
    IF "final_recommendation" \notin DOMAIN R.f THEN JStr("rejected")
    ELSE CASE R.f["final_recommendation"] = JStr("AUTO_APPROVE") -> JStr("approved")
           [] R.f["final_recommendation"] = JStr("MANAGER_REVIEW") -> JStr("reviewing")
           [] OTHER -> JStr("rejected")

-----------------------------------------------------------------------------
(* Properties *)

\* C1: when a submission resumes on a successful response that carries the
\* payload R (in either shape), a payload with a validation_summary adds a
\* record, and whenever a record is added it is the head of the list and its
\* status is 'approved' for AUTO_APPROVE, 'reviewing' for MANAGER_REVIEW and
\* 'rejected' for anything else.
C1_StatusFromRecommendation ==
    [][\A k \in DOMAIN submissions : \A R \in ValidationPayloads :
          (SubmissionResumes(k) /\ Carries(submissions[k].result, R))
              => /\ R \in CompletePayloads
                     => Len(expenses') = Len(expenses) + 1
                 /\ Len(expenses') = Len(expenses) + 1
                     => expenses'[1].status = StatusFor(R)]_vars

\* C1 witness: the list holds a record stored as 'rejected' for a payload
\* without a recommendation above one stored as 'reviewing' for MANAGER_REVIEW
C1_Witness ==
    /\ Len(expenses) = 2
    /\ expenses[1].status = JStr("rejected")
    /\ "final_recommendation" \notin DOMAIN expenses[1].validationResult.f
    /\ expenses[2].status = JStr("reviewing")
    /\ expenses[2].validationResult = ValidationPayload("MANAGER_REVIEW", "high")

\* C2: a submission starts only from a state in which vendor, amount and
\* date are all non-empty, and it captures form values that are non-empty.
C2_SubmitNeedsAllFields ==
    [][Len(submissions') > Len(submissions)
          => /\ expenseData.vendor # ""
             /\ expenseData.amount # ""
             /\ expenseData.date # ""
             /\ \A k \in DOMAIN submissions' :
                   /\ submissions'[k].data.vendor # ""
                   /\ submissions'[k].data.amount # ""
                   /\ submissions'[k].data.date # ""]_vars

\* C2 witness: a submission runs, and the form has since lost its date
C2_Witness ==
    /\ Len(submissions) = 1
    /\ submissions[1].data.date # ""
    /\ expenseData.date = ""
    /\ expenseData.vendor # ""
    /\ expenseData.amount # ""

\* C3: when a submission resumes on a response that carries R as JSON text,
\* it leaves the stored list, the displayed validation result and the error
\* field exactly as the response that carries R as an object would.
C3_ShapeEquivalence ==
    [][\A k \in DOMAIN submissions : \A R \in ValidationPayloads \cup {JNull} :
          (SubmissionResumes(k) /\ CarriesText(submissions[k].result, R))
              => LET direct == SubmitOutcome(Success(DirectEnvelope(R)),
                                             submissions[k].data,
                                             submissions[k].len)
                 IN  /\ expenses' = direct.expenses
                     /\ validationResult' = direct.validationResult
                     /\ validationError' = direct.validationError]_vars

\* C3 witness: a response carrying a complete payload as JSON text has
\* settled for a running submission, with a record already in the list
C3_Witness ==
    /\ Len(expenses) = 1
    /\ \E k \in DOMAIN submissions :
          /\ submissions[k].pc = "settled"
          /\ CarriesText(submissions[k].result,
                         ValidationPayload("AUTO_APPROVE", "low"))

\* the expense_status of an approval payload
ReturnedStatus(R) ==
    IF "expense_status" \in DOMAIN R.f THEN R.f["expense_status"] ELSE JUndef

\* C4: when a decision resumes on a successful response that carries an
\* approval payload, the list keeps its length and order, exactly one record
\* has the identifier of the record selected when the decision was clicked,
\* that record keeps every field but status, and every other record is
\* unchanged.
C4_DecisionFrame ==
    [][\A k \in DOMAIN decisions : \A R \in ApprovalPayloads :
          (DecisionResumes(k) /\ Carries(decisions[k].result, R))
              => /\ Len(expenses') = Len(expenses)
                 /\ Cardinality({n \in DOMAIN expenses :
                        expenses[n].id = decisions[k].selected.id}) = 1
                 /\ \A n \in DOMAIN expenses :
                       IF expenses[n].id = decisions[k].selected.id
                       THEN /\ DOMAIN expenses'[n] = DOMAIN expenses[n]
                            /\ \A f \in DOMAIN expenses[n] \ {"status"} :
                                  expenses'[n][f] = expenses[n][f]
                       ELSE expenses'[n] = expenses[n]]_vars

\* C4 witness: of two records submitted for manager review, the older one
\* has been approved by a decision and the newer one is as it was
C4_Witness ==
    /\ Len(expenses) = 2
    /\ expenses[1].status = JStr("reviewing")
    /\ expenses[2].status = JStr("approved")
    /\ expenses[2].validationResult = ValidationPayload("MANAGER_REVIEW", "high")
    /\ approvalResult = ApprovalPayload("approved")

\* C5: when a decision resumes on a successful response that carries an
\* approval payload, the record with the selected identifier gets the
\* payload's expense_status, for an approve and for a reject decision alike.
C5_StatusFromAgent ==
    [][\A k \in DOMAIN decisions : \A R \in ApprovalPayloads :
          \A decision \in Decisions :
          (/\ DecisionResumes(k)
           /\ decisions[k].decision = decision
           /\ Carries(decisions[k].result, R))
              => \A n \in DOMAIN expenses :
                    expenses[n].id = decisions[k].selected.id
                        => expenses'[n].status = ReturnedStatus(R)]_vars

\* C5 witness: a record carries the status 'escalated' the agent returned,
\* which is the outcome of neither decision, and the rationale is empty
C5_Witness ==
    /\ approvalResult = ApprovalPayload("escalated")
    /\ managerRationale = ""
    /\ ~isProcessingApproval
    /\ \E n \in DOMAIN expenses : expenses[n].status = JStr("escalated")

\* C6: a resuming decision empties the rationale when the call returned
\* success with an approval payload and leaves it as it was otherwise
\* (reported failure, no envelope, unrecognised shape, exception); no other
\* step of the handlers changes the rationale.
C6_RationaleClearedOnSuccessOnly ==
    [][/\ \A k \in DOMAIN decisions :
             DecisionResumes(k)
                 => IF \E R \in ApprovalPayloads :
                           Carries(decisions[k].result, R)
                    THEN managerRationale' = ""
                    ELSE managerRationale' = managerRationale
       /\ (managerRationale' # managerRationale /\ decisions' # decisions)
             => \E k \in DOMAIN decisions : \E R \in ApprovalPayloads :
                   DecisionResumes(k) /\ Carries(decisions[k].result, R)]_vars

\* C6 witness: after an earlier decision changed a record, a later attempt
\* has ended without a result and the rationale text is still there
C6_Witness ==
    /\ decisions = <<>>
    /\ ~isProcessingApproval
    /\ ~crashed
    /\ approvalResult = JNull
    /\ managerRationale # ""
    /\ \E n \in DOMAIN expenses :
          expenses[n].status # RecordStatus(expenses[n].validationResult)

\* C7: a record whose status is 'approved' or 'rejected' keeps that status
\* in every step.
C7_OneWayStatus ==
    [][\A n \in DOMAIN expenses : \A m \in DOMAIN expenses' :
          (/\ expenses'[m].id = expenses[n].id
           /\ expenses[n].status \in {JStr("approved"), JStr("rejected")})
              => expenses'[m].status = expenses[n].status]_vars

\* calls in flight, per agent
CoordinatorCalls ==
    Cardinality({k \in DOMAIN submissions : submissions[k].pc = "call"})
ApprovalCalls ==
    Cardinality({k \in DOMAIN decisions : decisions[k].pc = "call"})

\* C8 as claimed: at most one agent call is in flight, counting both agents.
C8_NoConcurrentCalls == CoordinatorCalls + ApprovalCalls <= 1

\* C8 as amended: at most one coordinator call and at most one approval
\* call are in flight.
C8_OneCallPerAgent == CoordinatorCalls <= 1 /\ ApprovalCalls <= 1

\* C8 witness: a coordinator call and an approval call are in flight together
C8_Witness == CoordinatorCalls = 1 /\ ApprovalCalls = 1

\* C9: at most one submission runs at a time, and isValidating is true from
\* its start to its completion.
C9_OneSubmission ==
    /\ Len(submissions) <= 1
    /\ submissions # <<>> => isValidating

\* C9 witness: the coordinator call of a submission is in flight while the
\* employee view shows a form whose three fields are filled in
C9_Witness ==
    /\ Len(submissions) = 1
    /\ submissions[1].pc = "call"
    /\ currentView = "employee"
    /\ expenseData.vendor # ""
    /\ expenseData.amount # ""
    /\ expenseData.date # ""

\* C10: in every step each record of the list is still in the list with
\* every field but status unchanged, and the length grows by one when a
\* submission resumes on a successful response that carries a complete
\* payload and by zero in every other step.
C10_NeverDeleted ==
    [][/\ \A n \in DOMAIN expenses : \E m \in DOMAIN expenses' :
             \A f \in DOMAIN expenses[n] \ {"status"} :
                expenses'[m][f] = expenses[n][f]
       /\ Len(expenses') = Len(expenses) +
             (IF \E k \in DOMAIN submissions : \E R \in CompletePayloads :
                    SubmissionResumes(k) /\ Carries(submissions[k].result, R)
              THEN 1 ELSE 0)]_vars

\* C10 witness: two records are in the list after a decision changed one of
\* them and a later submission failed
C10_Witness ==
    /\ Len(expenses) = 2
    /\ validationError = NetworkError
    /\ submissions = <<>>
    /\ \E n \in DOMAIN expenses :
          expenses[n].status # RecordStatus(expenses[n].validationResult)

\* C11: when a submission resumes and the list grows, the new list is the
\* new record followed by the previous list, unmodified and in order; the new
\* record carries the next sequence number, so the list is in descending
\* order of insertion (newest first) in every state.
C11_Prepended ==
    [][/\ \A k \in DOMAIN submissions :
             (SubmissionResumes(k) /\ Len(expenses') > Len(expenses))
                 => /\ Tail(expenses') = expenses
                    /\ Head(expenses').id = ExpenseId(Len(expenses) + 1)
                    /\ Head(expenses').vendor = submissions[k].data.vendor
       /\ \A n \in DOMAIN expenses' :
             expenses'[n].id = ExpenseId(Len(expenses') - n + 1)]_vars

\* C11 witness: a record was submitted above an older one that a manager
\* decision has since changed
C11_Witness ==
    /\ Len(expenses) = 2
    /\ expenses[1].id = ExpenseId(2)
    /\ expenses[1].validationResult = ValidationPayload("MANAGER_REVIEW", "high")
    /\ expenses[2].id = ExpenseId(1)
    /\ expenses[2].validationResult = ValidationPayload("AUTO_APPROVE", "low")
    /\ expenses[2].status = JStr("rejected")

\* the positions of the records whose status passes the status filter
MatchingIndices ==
    { n \in DOMAIN expenses :
        statusFilter = "all" \/ expenses[n].status = JStr(statusFilter) }

\* C12: the filtered list has one entry per record whose status equals the
\* filter value, its j-th entry is the j-th such record of the list (original
\* order), and with 'all' it is the whole list.
C12_FilterExact ==
    /\ Len(FilteredExpenses) = Cardinality(MatchingIndices)
    /\ \A j \in DOMAIN FilteredExpenses : \E n \in MatchingIndices :
          /\ Cardinality({ m \in MatchingIndices : m <= n }) = j
          /\ FilteredExpenses[j] = expenses[n]
    /\ statusFilter = "all" => FilteredExpenses = expenses

\* C12 witness: under the filter 'approved' the older, approved record of two
\* is the only row and has been selected from the filtered list
C12_Witness ==
    /\ statusFilter = "approved"
    /\ Len(expenses) >= 2
    /\ expenses[1].status = JUndef
    /\ expenses[2].status = JStr("approved")
    /\ FilteredExpenses = <<expenses[2]>>
    /\ selectedExpense = expenses[2]

\* rank of a date in calendar order
DayNumber(d) ==
    CASE d = "2026-01-10" -> 10
      [] d = "2026-01-31" -> 31
      [] d = "2026-02-01" -> 32

\* the record passes the four audit filters
SatisfiesAuditFilters(e) ==
    /\ auditFilters.status = "all" \/ e.status = JStr(auditFilters.status)
    /\ auditFilters.employee = "" \/ e.employee = auditFilters.employee
    /\ auditFilters.dateFrom = ""
          \/ DayNumber(e.date) >= DayNumber(auditFilters.dateFrom)
    /\ auditFilters.dateTo = ""
          \/ DayNumber(e.date) <= DayNumber(auditFilters.dateTo)

\* C13: the audit log lists exactly the records that satisfy the audit
\* filters, in list order.
C13_AuditRowsFiltered ==
    currentView = "audit"
        => AuditRows = SelectSeq(expenses, SatisfiesAuditFilters)

\* C14: when a submission resumes on a call that returned without success
\* or without a response envelope, the validation error becomes the returned
\* error string if it is non-empty and 'Validation failed' otherwise, and the
\* list is unchanged.
C14_ReportedFailure ==
    [][\A k \in DOMAIN submissions :
          (/\ SubmissionResumes(k)
           /\ submissions[k].result.kind = "return"
           /\ ~(submissions[k].result.success
                 /\ submissions[k].result.hasResponse))
              => /\ validationError' =
                        IF submissions[k].result.error = ""
                        THEN JStr("Validation failed")
                        ELSE JStr(submissions[k].result.error)
                 /\ expenses' = expenses]_vars

\* C14 witness: after one record was stored, a later submission has ended
\* with the error string the call returned
C14_Witness ==
    /\ validationError = JStr("Agent unavailable")
    /\ submissions = <<>>
    /\ ~isValidating
    /\ Len(expenses) = 1

\* the envelope has neither a string response nor a result object
NeitherShape(env) == ~env.isText /\ ~Truthy(env.result)

\* C15: when a submission resumes on a successful call whose envelope has
\* neither recognised shape, the error raised is caught and the validation
\* error is set (to the message 'Network error occurred'); no record is added
\* and no validation result is stored.
C15_InvalidStructure ==
    [][\A k \in DOMAIN submissions :
          (/\ SubmissionResumes(k)
           /\ submissions[k].result.success
           /\ submissions[k].result.hasResponse
           /\ NeitherShape(submissions[k].result.response))
              => /\ validationError' = JStr("Network error occurred")
                 /\ expenses' = expenses
                 /\ validationResult' = validationResult
                 /\ ~isValidating']_vars

\* C15 witness: with one record stored, the call of a later submission has
\* returned success with an envelope of neither shape
C15_Witness ==
    /\ Len(expenses) = 1
    /\ \E k \in DOMAIN submissions :
          /\ submissions[k].pc = "settled"
          /\ submissions[k].result = Success(NoEnvelope)

\* C16: when a submission resumes on a call that threw, the validation error
\* becomes 'Network error occurred', the list is unchanged, isValidating is
\* reset and the handler instance ends.
C16_CallThrows ==
    [][\A k \in DOMAIN submissions :
          (SubmissionResumes(k) /\ submissions[k].result.kind = "throw")
              => /\ validationError' = JStr("Network error occurred")
                 /\ expenses' = expenses
                 /\ ~isValidating'
                 /\ validationStage' = 5]_vars

\* C16 witness: after one record was stored, a later submission has ended
\* with the network error and the form is enabled again
C16_Witness ==
    /\ validationError = JStr("Network error occurred")
    /\ validationResult = JNull
    /\ ~isValidating
    /\ validationStage = 5
    /\ submissions = <<>>
    /\ Len(expenses) = 1

\* C17: when a submission resumes and ends with a validation error, the list
\* is the list before the attempt and no validation result is stored.
C17_NoPartialApplication ==
    [][\A k \in DOMAIN submissions :
          (SubmissionResumes(k) /\ validationError' # JNull)
              => /\ expenses' = expenses
                 /\ ~Truthy(validationResult')]_vars

\* the approval call threw, reported failure, returned no envelope, or
\* returned an envelope of neither shape
FailedDecision(r) ==
    \/ r.kind = "throw"
    \/ ~(r.success /\ r.hasResponse)
    \/ NeitherShape(r.response)

\* C18: when a decision resumes on a failed call, no error message and no
\* approval result is set, and the list, the rationale text and the selected
\* record are left as they are; only isProcessingApproval is reset.
C18_SilentDecisionFailure ==
    [][\A k \in DOMAIN decisions :
          (DecisionResumes(k) /\ FailedDecision(decisions[k].result))
              => /\ validationError' = validationError
                 /\ approvalResult' = JNull
                 /\ expenses' = expenses
                 /\ managerRationale' = managerRationale
                 /\ selectedExpense' = selectedExpense
                 /\ ~isProcessingApproval'
                 /\ ~crashed']_vars

\* C18 witness: after decisions changed both records of the list, a later
\* attempt has ended with nothing shown and the rationale still in place
C18_Witness ==
    /\ Len(expenses) = 2
    /\ expenses[1].status = JStr("escalated")
    /\ expenses[2].status = JStr("rejected")
    /\ decisions = <<>>
    /\ ~isProcessingApproval
    /\ approvalResult = JNull
    /\ validationError = JNull
    /\ managerRationale = "valid per policy"
    /\ selectedExpense # JNull

\* C19: every record's status is 'pending', 'reviewing', 'approved' or
\* 'rejected'.
C19_StatusInEnumeration ==
    \A n \in DOMAIN expenses :
        expenses[n].status \in { JStr("pending"), JStr("reviewing"),
                                 JStr("approved"), JStr("rejected") }

\* C20: the stage counter is 0 when isValidating becomes true; while
\* isValidating stays true it is within 0..4 and each step keeps it or raises
\* it by one; the coordinator call is in flight only at stage 4; the counter
\* becomes 5 exactly in the step that resets isValidating.
C20_StageCounter ==
    [][/\ (~isValidating /\ isValidating') => validationStage' = 0
       /\ isValidating' => validationStage' \in 0..4
       /\ (isValidating /\ isValidating')
             => validationStage' \in {validationStage, validationStage + 1}
       /\ \A k \in DOMAIN submissions' :
             submissions'[k].pc = "call" => validationStage' = 4
       /\ (validationStage' = 5 /\ validationStage # 5)
             => (isValidating /\ ~isValidating')
       /\ (isValidating /\ ~isValidating') => validationStage' = 5]_vars

\* C20 witness: a second submission is at its third stage while the manager
\* view is shown
C20_Witness ==
    /\ isValidating
    /\ validationStage = 2
    /\ Len(expenses) = 1
    /\ currentView = "manager"
    /\ Len(submissions) = 1
    /\ submissions[1].pc = "pause"

\* the steps of the handler instances old that lead to new: an instance is
\* added in its first position (pc first), or a settled instance ends, or
\* every instance stays or moves one position forward
OneWay(old, new, first) ==
    \/ /\ Len(new) = Len(old) + 1
       /\ SubSeq(new, 1, Len(old)) = old
       /\ new[Len(new)].pc = first
       /\ new[Len(new)].result = NoResult
    \/ \E k \in DOMAIN old : old[k].pc = "settled" /\ new = Without(old, k)
    \/ /\ Len(new) = Len(old)
       /\ \A k \in DOMAIN old :
             \/ new[k] = old[k] /\ old[k].pc # "settled"
             \/ /\ old[k].pc = "pause" /\ new[k].pc = "pause"
                /\ new[k].i = old[k].i + 1
             \/ /\ old[k].pc = "pause" /\ new[k].pc = "call"
                /\ old[k].i = 4
             \/ old[k].pc = "call" /\ new[k].pc = "settled"

\* C21: a submission starts at the first of five pauses, passes them in
\* order and only then issues its coordinator call; a decision issues its
\* approval call at the click; once its call has settled, with any outcome,
\* an attempt ends in the next step without a second call.
C21_OneCallPerAttempt ==
    [][/\ OneWay(submissions, submissions', "pause")
       /\ \A k \in DOMAIN submissions' :
             (Len(submissions') > Len(submissions) /\ k = Len(submissions'))
                 => submissions'[k].i = 0
       /\ OneWay(decisions, decisions', "call")]_vars

\* C21 witness: a submission has ended with the network error, no coordinator
\* call is in flight, and the approval call of a decision is
C21_Witness ==
    /\ submissions = <<>>
    /\ ~isValidating
    /\ validationError = JStr("Network error occurred")
    /\ Len(decisions) = 1
    /\ decisions[1].pc = "call"

\* C22: a decision starts (and issues its approval call) only from a state
\* with a selected record, a non-empty rationale and isProcessingApproval
\* false, and it captures that record and that rationale; while no record is
\* selected no step changes the decision state.
C22_DecisionPreconditions ==
    [][/\ Len(decisions') > Len(decisions)
             => /\ selectedExpense # JNull
                /\ managerRationale # ""
                /\ ~isProcessingApproval
                /\ decisions = <<>>
                /\ decisions'[Len(decisions')].pc = "call"
                /\ decisions'[Len(decisions')].selected = selectedExpense
                /\ decisions'[Len(decisions')].rationale = managerRationale
       /\ selectedExpense = JNull
             => /\ decisions' = <<>>
                /\ UNCHANGED <<isProcessingApproval, approvalResult,
                               managerRationale, expenses>>]_vars

\* C22 witness: an approval call is in flight with the rationale it was
\* clicked with, and the manager has emptied the rationale field since
C22_Witness ==
    /\ Len(decisions) = 1
    /\ decisions[1].pc = "call"
    /\ decisions[1].rationale = "valid per policy"
    /\ isProcessingApproval
    /\ managerRationale = ""
    /\ selectedExpense # JNull

\* C23: when a submission resumes on a successful response that carries a
\* payload R with a validation_summary, the new head of the list carries the
\* vendor, date and category captured at the click, the numeric value of the
\* captured amount (12.50, held in cents), the employee 'Current User', the
\* risk label R.validation_summary.risk_level and R itself as its validation
\* result, and R is the displayed validation result.
C23_RecordFields ==
    [][\A k \in DOMAIN submissions : \A R \in CompletePayloads :
          (SubmissionResumes(k) /\ Carries(submissions[k].result, R))
              => /\ Len(expenses') = Len(expenses) + 1
                 /\ expenses'[1].vendor = submissions[k].data.vendor
                 /\ expenses'[1].date = submissions[k].data.date
                 /\ expenses'[1].category = submissions[k].data.category
                 /\ submissions[k].data.amount = "12.50"
                 /\ expenses'[1].amount = 1250
                 /\ expenses'[1].employee = "Current User"
                 /\ expenses'[1].riskScore =
                        R.f["validation_summary"].f["risk_level"]
                 /\ expenses'[1].validationResult = R
                 /\ validationResult' = R]_vars

\* C23 witness: a Travel expense was stored with the risk label 'medium' of
\* a response that is also the displayed validation result
C23_Witness ==
    /\ Len(expenses) = 1
    /\ expenses[1].category = "Travel"
    /\ expenses[1].vendor = "Starbucks Coffee"
    /\ expenses[1].amount = 1250
    /\ expenses[1].riskScore = JStr("medium")
    /\ validationResult = expenses[1].validationResult
    /\ submissions = <<>>

\* C24: every started submission eventually reaches isValidating = false
\* with stage 5, and every started decision eventually reaches
\* isProcessingApproval = false.
C24_AttemptsFinish ==
    /\ isValidating ~> (~isValidating /\ validationStage = 5)
    /\ isProcessingApproval ~> ~isProcessingApproval

\* C25: the records of the list have pairwise distinct identifiers, the
\* record at position n from the head carries the sequence number
\* Len(expenses) - n + 1 padded to three digits, and the list length a
\* running submission captured at its click is the current length.
C25_DistinctIds ==
    /\ \A m, n \in DOMAIN expenses :
          m # n => expenses[m].id # expenses[n].id
    /\ \A n \in DOMAIN expenses :
          expenses[n].id = [prefix |-> "EXP-2026-",
                            digits |-> <<0, 0, Len(expenses) - n + 1>>]
    /\ \A k \in DOMAIN submissions : submissions[k].len = Len(expenses)

\* C25 witness: with two records stored and one of them changed by a
\* decision, a submission and a decision are in flight together
C25_Witness ==
    /\ Len(expenses) = 2
    /\ Len(submissions) = 1
    /\ submissions[1].len = 2
    /\ Len(decisions) = 1
    /\ \E n \in DOMAIN expenses : expenses[n].status = JStr("rejected")

\* C26: the two updates of the list compose in either order.  When a
\* submission resumes and adds its record, every record of the current list,
\* with the status any decision has given it, follows the new record
\* unchanged; when a decision resumes on the agent's 'rejected', the list keeps
\* its length, the record with the selected identifier becomes 'rejected' and
\* every other record, one added during the call included, is unchanged.
C26_NoLostUpdate ==
    [][/\ \A k \in DOMAIN submissions :
             (SubmissionResumes(k) /\ Len(expenses') > Len(expenses))
                 => /\ Len(expenses') = Len(expenses) + 1
                    /\ \A n \in DOMAIN expenses : expenses'[n + 1] = expenses[n]
       /\ \A k \in DOMAIN decisions :
             (/\ DecisionResumes(k)
              /\ CarriesText(decisions[k].result, ApprovalPayload("rejected")))
                 => /\ Len(expenses') = Len(expenses)
                    /\ \E n \in DOMAIN expenses :
                          expenses[n].id = decisions[k].selected.id
                    /\ \A n \in DOMAIN expenses :
                          IF expenses[n].id = decisions[k].selected.id
                          THEN expenses'[n].status = JStr("rejected")
                          ELSE expenses'[n] = expenses[n]]_vars

\* C26 witness: while the approval call of a decision on the only record is
\* in flight, the coordinator call of a submission has returned a result that
\* adds a record
C26_Witness ==
    /\ Len(expenses) = 1
    /\ Len(decisions) = 1
    /\ decisions[1].pc = "call"
    /\ decisions[1].selected.id = expenses[1].id
    /\ Len(submissions) = 1
    /\ submissions[1].pc = "settled"
    /\ submissions[1].result.success

\* C27: a submission captures the form at its click; while it runs no step,
\* a form edit included, changes the captured values or the prompt built from
\* them, and the record it adds carries the captured vendor, amount, date and
\* category whatever the form holds by then.
C27_FormCapturedAtClick ==
    [][/\ Len(submissions') > Len(submissions)
             => submissions'[Len(submissions')].data = expenseData
       /\ Len(submissions') = Len(submissions)
             => \A k \in DOMAIN submissions :
                   /\ submissions'[k].data = submissions[k].data
                   /\ CoordinatorMessage(submissions'[k].data) =
                          CoordinatorMessage(submissions[k].data)
       /\ \A k \in DOMAIN submissions :
             (SubmissionResumes(k) /\ Len(expenses') > Len(expenses))
                 => /\ expenses'[1].vendor = submissions[k].data.vendor
                    /\ expenses'[1].date = submissions[k].data.date
                    /\ expenses'[1].category = submissions[k].data.category
                    /\ (submissions[k].data.amount = "12.50"
                           => expenses'[1].amount = 1250)]_vars

\* C27 witness: the coordinator has returned a result that adds a record for
\* a submission clicked with a form that has since been emptied of its vendor
\* and switched to another category
C27_Witness ==
    /\ Len(submissions) = 1
    /\ submissions[1].pc = "settled"
    /\ submissions[1].result = Success(DirectEnvelope(
           ValidationPayload("AUTO_APPROVE", "low")))
    /\ submissions[1].data.vendor = "Starbucks Coffee"
    /\ expenseData.vendor = ""
    /\ submissions[1].data.category # expenseData.category

\* C28: when a decision resumes on a successful response that carries an
\* approval payload and another record has been selected since the click, the
\* record selected at the click gets the returned status, the record selected
\* now is unchanged, and the selection stays.
C28_AppliedToClickedRecord ==
    [][\A k \in DOMAIN decisions : \A R \in ApprovalPayloads :
          (/\ DecisionResumes(k)
           /\ Carries(decisions[k].result, R)
           /\ selectedExpense.id # decisions[k].selected.id)
              => /\ \E n \in DOMAIN expenses :
                       expenses[n].id = decisions[k].selected.id
                 /\ \A n \in DOMAIN expenses :
                       /\ expenses[n].id = decisions[k].selected.id
                             => expenses'[n].status = ReturnedStatus(R)
                       /\ expenses[n].id = selectedExpense.id
                             => expenses'[n] = expenses[n]
                 /\ selectedExpense' = selectedExpense]_vars

\* C28 witness: the approval call of a decision on the older record has
\* returned 'approved' after the manager selected the newer record
C28_Witness ==
    /\ Len(expenses) = 2
    /\ Len(decisions) = 1
    /\ decisions[1].pc = "settled"
    /\ Carries(decisions[1].result, ApprovalPayload("approved"))
    /\ decisions[1].selected.id = expenses[2].id
    /\ selectedExpense.id = expenses[1].id
    /\ expenses[1].status = JStr("reviewing")

=============================================================================
